---------------------------- MODULE Spec2Model ----------------------------
(***************************************************************************)
(* State-machine model of the two playback sessions of the repository:     *)
(*   ZLMWebRTCPlayer  (src/player/zlm-webrtc-player.js), the real-time     *)
(*                    session, variable rt;                                *)
(*   ZLMStreamPlayer  (src/unnamed/part_000, lines 1-344), the progressive *)
(*                    session, variable pg.                                *)
(* JavaScript runs one task at a time, so every action is one task: the    *)
(* synchronous part of a call, the continuation of one await, one event    *)
(* handler or one timer callback, from its first statement to the next     *)
(* await or return.  The host (RTCPeerConnection, fetch, the media element,*)
(* mpegts.js) settles promises and delivers events nondeterministically.   *)
(* The two sessions share no state; a behaviour follows one of them,       *)
(* chosen by `mode` in the initial state, or, in mode "page", both of them *)
(* as driven by the comparison page (src/unnamed/part_000, lines 345-716). *)
(*                                                                         *)
(* The suspended invocations of play() of a session are a bag: an          *)
(* invocation is the record of its local state, and two invocations in the *)
(* same local state are not told apart.                                    *)
(***************************************************************************)
EXTENDS Integers, Sequences, FiniteSets, Bags

\* ------------------------------------------------------------- bounds
\* play() invocations of a session that may be suspended at once, and the
\* handles of a session that may be open at once.
MaxLiveRT == 2
MaxLivePG == 2
\* Reconnect backoff timers pending at once.
MaxReTimers == 2
\* Steps in one run of the page: its clicks and timers, and the settled
\* promises, events and timers of its two sessions.
MaxPageSteps == 11

\* ------------------------------------------------- program constants
maxReconnectAttempts == 3

\* ------------------------------------------------------------- values
Undefined == "<undefined>"
NoErr == <<>>
\* play(url) arguments of the real-time session
UrlArgs == {"u1", ""}
\* inbound-rtp video reports one getStats() result may hold
ReportCounts == {0, 1, 2}

Falsy(v) == v \in {Undefined, ""}

\* JS `a || b`
OrElse(a, b) == IF Falsy(a) THEN b ELSE a

Call(cb, arg) == [cb |-> cb, arg |-> arg]

CallNames(calls) == [i \in DOMAIN calls |-> calls[i].cb]

\* The fields in which two records of a session differ.
Changed(a, b) == {f \in DOMAIN a : a[f] # b[f]}

Min(S) == CHOOSE x \in S : \A y \in S : x <= y

\* A step's observations: the user callbacks it invoked, in order, the
\* play() promises it settled, the requests it made of the host and the
\* exceptions that left it uncaught.
Begin(s) == [s EXCEPT !.calls = <<>>, !.settled = <<>>, !.sent = <<>>, !.thrown = <<>>]

Invoke(s, cb, arg) == [s EXCEPT !.calls = Append(@, Call(cb, arg))]

Uncaught(s, e) == [s EXCEPT !.thrown = Append(@, e)]

Settle(s, how, e) == [s EXCEPT !.settled = Append(@, [how |-> how, err |-> e])]

TypeError == <<"TypeError">>
HostError(step) == <<"HostError", step>>

\* ---- the suspended invocations of play()
Pending(s) == BagCardinality(s.plays)

Remove(s, pl) == [s EXCEPT !.plays = @ (-) SetToBag({pl})]

Replace(s, pl, pl2) ==
    [s EXCEPT !.plays = (@ (-) SetToBag({pl})) (+) SetToBag({pl2})]

\* The invocations of bag B that are in S.
Restrict(B, S) == [x \in (DOMAIN B) \cap S |-> B[x]]

VARIABLES mode, rt, pg, page, last

vars == <<mode, rt, pg, page, last>>

\* The last step: the operation and its inputs.
Last(op, arg) == [op |-> op, arg |-> arg]

NoArg == [none |-> TRUE]

\* =====================================================================
\*  Real-time session: ZLMWebRTCPlayer
\* =====================================================================
HandlesRT == 1..MaxLiveRT

IceStates == {"checking", "connected", "disconnected", "failed"}

\* An RTCPeerConnection as the session observes it.
NoConn == [st |-> "none", local |-> FALSE, gather |-> "new", ice |-> "new",
           remote |-> FALSE]
NewConn == [NoConn EXCEPT !.st = "open"]

\* A play invocation: the await it is suspended at (pc), the connection its
\* pending host call was made on (on; 0: none, or closed since), its url
\* argument, the connection its checkState listener is registered on
\* (listener; 0: none), whether its 5000 ms timer is pending (timer).
NewPlay(url) == [pc |-> "createOffer", on |-> 0, url |-> url,
                 listener |-> 0, timer |-> FALSE]

RtInit == [peerConnection |-> 0, statsInterval |-> FALSE,
           stream |-> 0, srcObject |-> 0,
           conn |-> [h \in HandlesRT |-> NoConn],
           liveStats |-> 0, statsPending |-> FALSE,
           lateIceTimer |-> FALSE, lateIceEvent |-> FALSE,
           plays |-> EmptyBag,
           calls |-> <<>>, settled |-> <<>>, sent |-> <<>>, thrown |-> <<>>]

\* The connections created and not yet closed.
RtOpen(s) == {h \in HandlesRT : s.conn[h].st = "open"}

\* The connection numbers a new connection may take.
RtFree(s) == {h \in HandlesRT : s.conn[h].st = "none"}

\* The plays that wait for ICE gathering.
RtWaiting(s) == BagCardinality(Restrict(s.plays, {x \in DOMAIN s.plays : x.pc = "iceWait"}))

\* The plays whose 5000 ms timer is pending.
RtTimers(s) == BagCardinality(Restrict(s.plays, {x \in DOMAIN s.plays : x.timer}))

\* A closed connection fires no event and applies no pending call: a
\* listener or a pending call on it is dropped.
RtDetach(x, h) == [x EXCEPT !.listener = IF @ = h THEN 0 ELSE @,
                            !.on = IF @ = h THEN 0 ELSE @]

RtDetachAll(B, h) ==
    [y \in {RtDetach(x, h) : x \in DOMAIN B} |->
        Cardinality({xi \in (DOMAIN B) \X (1..BagCardinality(B)) :
                        xi[2] <= B[xi[1]] /\ RtDetach(xi[1], h) = y})]

\* RTCPeerConnection.close() of connection h.  The oniceconnectionstatechange
\* handler stays set on the closed connection, and a host that reports the
\* change to 'closed', or a change queued before the close, through the
\* event delivers it later (lateIceEvent: at least one such event is queued).
RtClose(s, h) ==
    [s EXCEPT !.conn[h] = NoConn, !.plays = RtDetachAll(@, h),
              !.lateIceEvent = TRUE]

\* stop() that forgets the connection without closing it.
RtStopNoClose(s) ==
    LET s1 == IF s.statsInterval
              THEN [s EXCEPT !.statsInterval = FALSE, !.liveStats = @ - 1]
              ELSE s
    IN [s1 EXCEPT !.peerConnection = 0, !.srcObject = 0, !.stream = 0]

\* stop(), lines 139-164.
RtStop(s) ==
    LET s1 == IF s.statsInterval
              THEN [s EXCEPT !.statsInterval = FALSE, !.liveStats = @ - 1]
              ELSE s
        s2 == IF s1.peerConnection # 0
              THEN [RtClose(s1, s1.peerConnection) EXCEPT !.peerConnection = 0]
              ELSE s1
    IN [s2 EXCEPT !.srcObject = 0, !.stream = 0]

\* _startStatsMonitoring() without the test of this.statsInterval.
RtStartStatsUnguarded(s) ==
    [s EXCEPT !.statsInterval = TRUE, !.liveStats = @ + 1]

\* _startStatsMonitoring(), lines 260-263: one setInterval unless one is held.
RtStartStats(s) ==
    IF s.statsInterval THEN s
    ELSE [s EXCEPT !.statsInterval = TRUE, !.liveStats = @ + 1]

\* A catch block that reports and rethrows without stop().
RtCatchNoStop(s, pl, e) ==
    Settle(Invoke(Remove(s, pl), "onError", e), "rejected", e)

\* play()'s catch block, lines 128-133: onError, stop(), rethrow; the
\* invocation pl ends.
RtCatch(s, pl, e) ==
    Settle(RtStop(Invoke(Remove(s, pl), "onError", e)), "rejected", e)

\* play() that runs stop() before it looks at its argument.
RtPlayStartStopsFirst(s, url) ==
    IF url = ""
    THEN Settle(RtStop(s), "rejected", <<"Stream URL is required">>)
    ELSE LET s1 == RtStop(s)
             h == Min(RtFree(s1))
         IN [s1 EXCEPT !.peerConnection = h, !.conn[h] = NewConn,
                       !.plays = @ (+) SetToBag({NewPlay(url)})]

\* The synchronous part of play(url), lines 68-117, up to `await createOffer`.
RtPlayStart(s, url) ==
    IF url = ""
    THEN Settle(s, "rejected", <<"Stream URL is required">>)
    ELSE LET s1 == RtStop(s)
             h == Min(RtFree(s1))
         IN [s1 EXCEPT !.peerConnection = h, !.conn[h] = NewConn,
                       !.plays = @ (+) SetToBag({NewPlay(url)})]

\* After `await createOffer`, line 120: setLocalDescription on this.peerConnection.
RtAfterOffer(s, pl, ok) ==
    IF ~ok THEN RtCatch(s, pl, HostError("createOffer"))
    ELSE IF s.peerConnection = 0 THEN RtCatch(s, pl, TypeError)
    ELSE Replace(s, pl, [pl EXCEPT !.pc = "setLocal", !.on = s.peerConnection])

\* Lines 179-194: read this.peerConnection.localDescription.sdp and POST it.
RtSendOffer(s, pl) ==
    IF s.peerConnection = 0 THEN RtCatch(s, pl, TypeError)
    ELSE IF ~s.conn[s.peerConnection].local THEN RtCatch(s, pl, TypeError)
    ELSE [Replace(s, pl, [pl EXCEPT !.pc = "fetch", !.on = 0])
             EXCEPT !.sent = Append(@, [req |-> "POST", url |-> pl.url])]

\* A play that posts the offer without waiting for ICE gathering.
RtWaitSkipped(s, pl) ==
    IF s.peerConnection = 0 THEN RtCatch(s, pl, TypeError)
    ELSE RtSendOffer(s, pl)

\* _waitForIceGathering(), lines 229-254, as run by play pl.
RtWaitForIceGathering(s, pl) ==
    IF s.peerConnection = 0 THEN RtCatch(s, pl, TypeError)
    ELSE IF s.conn[s.peerConnection].gather = "complete" THEN RtSendOffer(s, pl)
    ELSE Replace(s, pl, [pl EXCEPT !.pc = "iceWait", !.on = 0,
                                   !.listener = s.peerConnection,
                                   !.timer = TRUE])

\* The host applies a settled setLocalDescription to the connection it was called on.
HostSetLocal(s, h) ==
    IF h # 0
    THEN [s EXCEPT !.conn[h].local = TRUE,
                   !.conn[h].gather = IF @ = "new" THEN "gathering" ELSE @]
    ELSE s

\* After `await setLocalDescription`, lines 121-124 and 171-176.
RtAfterLocal(s, pl, ok) ==
    IF ~ok THEN RtCatch(s, pl, HostError("setLocalDescription"))
    ELSE RtWaitForIceGathering(HostSetLocal(s, pl.on), pl)

\* resolve() of the wait's promise: play pl resumes at line 179.  Its 5000 ms
\* timer, if still pending, stays pending (lateIceTimer: at least one timer
\* of a play that waits no more is pending).
RtResolveWait(s, pl) ==
    LET pl2 == [pl EXCEPT !.timer = FALSE]
    IN RtSendOffer([Replace(s, pl, pl2) EXCEPT !.lateIceTimer = @ \/ pl.timer], pl2)

\* removeEventListener('icegatheringstatechange', checkState) on this.peerConnection
RtUnlisten(s, pl) ==
    [pl EXCEPT !.listener = IF @ = s.peerConnection THEN 0 ELSE @]

\* checkState, lines 236-241, the listener of play pl.  Reading
\* this.peerConnection.iceGatheringState of a null peerConnection throws a
\* TypeError inside the listener, which nothing catches.
RtCheckState(s, pl) ==
    IF s.peerConnection = 0 THEN Uncaught(s, TypeError)
    ELSE IF s.conn[s.peerConnection].gather = "complete"
    THEN RtResolveWait(Replace(s, pl, RtUnlisten(s, pl)), RtUnlisten(s, pl))
    ELSE s

\* The 5000 ms timeout of the waiting play pl, lines 246-252; the same
\* TypeError when this.peerConnection is null.
RtIceTimeoutBody(s, pl) ==
    IF s.peerConnection = 0 THEN Uncaught(s, TypeError)
    ELSE IF s.conn[s.peerConnection].gather # "complete"
    THEN RtResolveWait(Replace(s, pl, RtUnlisten(s, pl)), RtUnlisten(s, pl))
    ELSE s

\* The same callback for a play that waits no more: removeEventListener and
\* resolve() then do nothing.
RtLateIceTimeoutBody(s) ==
    IF s.peerConnection = 0 THEN Uncaught(s, TypeError) ELSE s

\* ---- the signaling response
NoData == [present |-> FALSE, sdp |-> Undefined]
Responses ==
    [code : {0}, msg : {Undefined},
     sdp : {Undefined, "", "sdpA"}, answer : {Undefined, "sdpB"},
     data : {NoData, [present |-> TRUE, sdp |-> "sdpC"]}]
    \cup
    [code : {0}, msg : {Undefined}, sdp : {Undefined}, answer : {Undefined, ""},
     data : {[present |-> TRUE, sdp |-> Undefined]}]
    \cup
    [code : {1}, msg : {Undefined, "stream not found"},
     sdp : {Undefined, "sdpA"}, answer : {Undefined}, data : {NoData}]

\* result.data?.sdp, line 207
DataSdp(r) == IF r.data.present THEN r.data.sdp ELSE Undefined

\* result.sdp || result.answer || result.data?.sdp, line 207
AnswerSdp(r) == OrElse(OrElse(r.sdp, r.answer), DataSdp(r))

\* After `await fetch`, lines 196-200.  out: "reject" (the request failed),
\* "notok" (a non-2xx status), "ok".
RtAfterFetch(s, pl, out) ==
    CASE out = "reject" -> RtCatch(s, pl, HostError("fetch"))
      [] out = "notok" -> RtCatch(s, pl, <<"Server returned", "404">>)
      [] OTHER -> Replace(s, pl, [pl EXCEPT !.pc = "json"])

\* Lines 212-215: setRemoteDescription on this.peerConnection.
RtApplyAnswer(s, pl, sdp) ==
    IF s.peerConnection = 0 THEN RtCatch(s, pl, TypeError)
    ELSE [Replace(s, pl, [pl EXCEPT !.pc = "setRemote"])
             EXCEPT !.conn[s.peerConnection].remote = TRUE,
                    !.sent = Append(@, [req |-> "setRemoteDescription", url |-> sdp])]

\* The continuation without the test of result.code.
RtAfterJsonAnyCode(s, pl, parsed, r) ==
    IF ~parsed THEN RtCatch(s, pl, HostError("json"))
    ELSE IF Falsy(AnswerSdp(r))
    THEN RtCatch(s, pl, <<"No SDP answer found in response">>)
    ELSE RtApplyAnswer(s, pl, AnswerSdp(r))

\* The continuation without the test for a missing answer.
RtAfterJsonAnyAnswer(s, pl, parsed, r) ==
    IF ~parsed THEN RtCatch(s, pl, HostError("json"))
    ELSE IF r.code # 0
    THEN RtCatch(s, pl, <<"ZLMediaKit error: ", OrElse(r.msg, "Unknown error")>>)
    ELSE RtApplyAnswer(s, pl, AnswerSdp(r))

\* A continuation that takes result.sdp whenever it is defined, empty or not.
RtAfterJsonNullish(s, pl, parsed, r) ==
    LET answerSdp == IF r.sdp # Undefined THEN r.sdp
                     ELSE IF r.answer # Undefined THEN r.answer ELSE DataSdp(r)
    IN IF ~parsed THEN RtCatch(s, pl, HostError("json"))
       ELSE IF r.code # 0
       THEN RtCatch(s, pl, <<"ZLMediaKit error: ", OrElse(r.msg, "Unknown error")>>)
       ELSE IF Falsy(answerSdp)
       THEN RtCatch(s, pl, <<"No SDP answer found in response">>)
       ELSE RtApplyAnswer(s, pl, answerSdp)

\* After `await response.json()`, lines 201-215.  parsed = FALSE: the body is
\* not JSON.
RtAfterJson(s, pl, parsed, r) ==
    IF ~parsed THEN RtCatch(s, pl, HostError("json"))
    ELSE IF r.code # 0
    THEN RtCatch(s, pl, <<"ZLMediaKit error: ", OrElse(r.msg, "Unknown error")>>)
    ELSE IF Falsy(AnswerSdp(r))
    THEN RtCatch(s, pl, <<"No SDP answer found in response">>)
    ELSE RtApplyAnswer(s, pl, AnswerSdp(r))

\* After `await setRemoteDescription`, lines 217 and 126: play() returns.
RtAfterRemote(s, pl, ok) ==
    IF ~ok THEN RtCatch(s, pl, HostError("setRemoteDescription"))
    ELSE Settle(Remove(s, pl), "resolved", NoErr)

\* A handler that reports every state other than 'connected' as a disconnection.
RtOnIceStateChangeEager(s) ==
    IF s.peerConnection = 0 THEN Uncaught(s, TypeError)
    ELSE IF s.conn[s.peerConnection].ice = "connected"
    THEN Invoke(RtStartStats(s), "onConnected", NoErr)
    ELSE Invoke(s, "onDisconnected", NoErr)

\* oniceconnectionstatechange, lines 83-91.  It reads the state of
\* this.peerConnection; with a null peerConnection the read throws.
RtOnIceStateChange(s) ==
    IF s.peerConnection = 0 THEN Uncaught(s, TypeError)
    ELSE LET st == s.conn[s.peerConnection].ice
         IN IF st = "connected"
            THEN Invoke(RtStartStats(s), "onConnected", NoErr)
            ELSE IF st \in {"disconnected", "failed", "closed"}
            THEN Invoke(s, "onDisconnected", NoErr)
            ELSE s

\* ontrack, lines 103-107
RtOnTrack(s, h) == [s EXCEPT !.srcObject = h, !.stream = h]

\* The interval callback up to its await, lines 263-266.  statsPending:
\* at least one getStats() promise is outstanding.
RtStatsTickBody(s) ==
    IF s.peerConnection = 0 THEN s
    ELSE [s EXCEPT !.statsPending = TRUE]

RECURSIVE InvokeTimes(_, _, _, _)
InvokeTimes(s, cb, arg, n) ==
    IF n = 0 THEN s ELSE InvokeTimes(Invoke(s, cb, arg), cb, arg, n - 1)

\* A continuation that invokes onStats once whatever the result holds.
RtStatsReportOnce(s, n, more) ==
    Invoke([s EXCEPT !.statsPending = more], "onStats", NoErr)

\* The interval callback after `await getStats()`, lines 267-294: onStats
\* once for each inbound-rtp video report of the result.  more: another
\* getStats() promise is still outstanding.
RtStatsReport(s, n, more) ==
    InvokeTimes([s EXCEPT !.statsPending = more], "onStats", NoErr, n)

\* The plays whose checkState listener is registered on connection h.
RtListening(s, h) == Restrict(s.plays, {x \in DOMAIN s.plays : x.listener = h})

\* Dispatch of icegatheringstatechange to the checkState listeners reg.
RECURSIVE RtDispatchGathering(_, _)
RtDispatchGathering(s, reg) ==
    IF DOMAIN reg = {} THEN s
    ELSE LET x == CHOOSE y \in DOMAIN reg : TRUE
         IN RtDispatchGathering(IF BagIn(x, s.plays) THEN RtCheckState(s, x) ELSE s,
                                reg (-) SetToBag({x}))

\* What of the session a caller can observe to have changed.
RtState(s) == Begin(s)

\* =====================================================================
\*  Progressive session: ZLMStreamPlayer
\* =====================================================================
HandlesPG == 1..MaxLivePG

streamType == "flv"
\* play(url, type) arguments of the progressive session
PlayArgs == {[url |-> "u1", type |-> Undefined],
             [url |-> "u2", type |-> "mpegts"],
             [url |-> "", type |-> Undefined]}
ErrorTypes == {"NetworkError", "MediaError"}
NETWORK_ERROR == "NetworkError"
\* videoElement.readyState: HAVE_NOTHING, HAVE_METADATA, HAVE_CURRENT_DATA
ReadyStates == {0, 1, 2}

\* What `player._config` of a player made by mpegts.createPlayer(source,
\* options) holds, lines 228-229; mpegts.js decides it.  "source": the url
\* and the type of the source (the first argument, lines 105-115), as the
\* listener expects; "options": the player's options (the second argument,
\* lines 116-132), which name no url and no type; "absent": the player has
\* no such field.
ConfigLayouts == {"source", "options", "absent"}

\* An mpegts.js player.
NoPlayer == [st |-> "none", url |-> "", type |-> ""]

\* A play(url) invocation suspended at `await this.videoElement.play()`:
\* whether its playTimeout is pending.
PgAwait(url, timer) == [pc |-> "play", url |-> url, timer |-> timer]

PgInit == [player |-> 0, statsInterval |-> FALSE, reconnectAttempts |-> 0,
           players |-> [h \in HandlesPG |-> NoPlayer],
           attached |-> 0, listening |-> FALSE,
           liveStats |-> 0, lateWatchdog |-> {},
           config |-> "options",
           reTimers |-> <<>>,
           headPending |-> FALSE,
           plays |-> EmptyBag,
           sincePlaying |-> 0,
           calls |-> <<>>, settled |-> <<>>, sent |-> <<>>, thrown |-> <<>>]

\* The players created and not yet destroyed.
PgOpen(s) == {h \in HandlesPG : s.players[h].st = "open"}

\* The player numbers a new player may take.
PgFree(s) == {h \in HandlesPG : s.players[h].st = "none"}

\* The plays whose playTimeout is pending.
PgTimers(s) == BagCardinality(Restrict(s.plays, {x \in DOMAIN s.plays : x.timer}))

\* stop() that invokes onDisconnected only when it destroyed a player.
PgStopQuiet(s) ==
    LET s1 == IF s.statsInterval
              THEN [s EXCEPT !.statsInterval = FALSE, !.liveStats = @ - 1]
              ELSE s
    IN IF s1.player # 0
       THEN Invoke([s1 EXCEPT !.players[s1.player] = NoPlayer, !.player = 0,
                              !.attached = 0],
                   "onDisconnected", NoErr)
       ELSE [s1 EXCEPT !.attached = 0]

\* stop(), lines 267-289.
PgStop(s) ==
    LET s1 == IF s.statsInterval
              THEN [s EXCEPT !.statsInterval = FALSE, !.liveStats = @ - 1]
              ELSE s
        s2 == IF s1.player # 0
              THEN [s1 EXCEPT !.players[s1.player] = NoPlayer,
                              !.player = 0]
              ELSE s1
        s3 == [s2 EXCEPT !.attached = 0]
    IN Invoke(s3, "onDisconnected", NoErr)

\* _startStatsMonitoring(), lines 295-298.
PgStartStats(s) ==
    IF s.statsInterval THEN s
    ELSE [s EXCEPT !.statsInterval = TRUE, !.liveStats = @ + 1]

\* play()'s catch block, lines 173-178; the invocation pl ends.  Its
\* playTimeout, if pending, stays pending (lateWatchdog: the urls of which
\* at least one playTimeout of a settled play is pending).
PgCatch(s, pl, e) ==
    LET s1 == [Remove(s, pl) EXCEPT
                  !.lateWatchdog = IF pl.timer THEN @ \cup {pl.url} ELSE @]
    IN Settle(PgStop(Invoke(s1, "onError", e)), "rejected", e)

\* The synchronous part of play(url, type), lines 89-165, up to
\* `await this.videoElement.play()`.  fail: "create" when mpegts.createPlayer
\* throws, "load" when player.load() throws, "none" otherwise.
PgPlayStart(s, url, type, fail) ==
    IF Falsy(url)
    THEN Settle(s, "rejected", <<"Stream URL is required">>)
    ELSE LET s1 == PgStop(s)
             h == Min(PgFree(s1))
             s2 == [s1 EXCEPT !.player = h,
                              !.players[h] = [st |-> "open", url |-> url,
                                              type |-> OrElse(type, streamType)],
                              !.attached = h, !.listening = TRUE]
             run(t, pl) == [t EXCEPT !.plays = @ (+) SetToBag({pl})]
         IN CASE fail = "create" ->
                   PgCatch(run(s1, PgAwait(url, FALSE)), PgAwait(url, FALSE),
                           HostError("createPlayer"))
              [] fail = "load" ->
                   PgCatch(run(s2, PgAwait(url, FALSE)), PgAwait(url, FALSE),
                           HostError("load"))
              [] OTHER -> run(s2, PgAwait(url, TRUE))

\* After `await this.videoElement.play()`, lines 166-172: clearTimeout,
\* _startStatsMonitoring, onConnected; play() returns.
PgAfterPlay(s, pl, ok) ==
    IF ~ok THEN PgCatch(s, pl, HostError("play"))
    ELSE Settle(Invoke(PgStartStats(Remove(s, pl)), "onConnected", NoErr),
                "resolved", NoErr)

\* `this.player._config` as the ERROR listener reads it, lines 228-229: the
\* url and the type it finds there.
PgConfig(s) ==
    IF s.config = "source"
    THEN [url |-> s.players[s.player].url, type |-> s.players[s.player].type]
    ELSE [url |-> Undefined, type |-> Undefined]

\* An ERROR listener that retries while the counter is at most the maximum.
PgOnErrorOneMore(s, errorType) ==
    LET s1 == Invoke(s, "onError", <<errorType, "detail">>)
    IN IF errorType = NETWORK_ERROR /\ s1.reconnectAttempts <= maxReconnectAttempts
       THEN IF s1.player = 0 \/ s1.config = "absent"
            THEN Uncaught([s1 EXCEPT !.reconnectAttempts = @ + 1], TypeError)
            ELSE [s1 EXCEPT !.reconnectAttempts = @ + 1,
                            !.reTimers = Append(@, PgConfig(s1)),
                            !.sincePlaying = @ + 1]
       ELSE s1

\* The ERROR listener, lines 207-237.  Reading `_config` of no player, or
\* `url` of no `_config`, throws after the counter was incremented.
\* sincePlaying counts the reconnections scheduled since the last 'playing'
\* event.
PgOnError(s, errorType) ==
    LET s1 == Invoke(s, "onError", <<errorType, "detail">>)
    IN IF errorType = NETWORK_ERROR /\ s1.reconnectAttempts < maxReconnectAttempts
       THEN IF s1.player = 0 \/ s1.config = "absent"
            THEN Uncaught([s1 EXCEPT !.reconnectAttempts = @ + 1], TypeError)
            ELSE [s1 EXCEPT !.reconnectAttempts = @ + 1,
                            !.reTimers = Append(@, PgConfig(s1)),
                            !.sincePlaying = @ + 1]
       ELSE s1

\* The reconnect timer's callback, lines 230-235.
PgReconnect(s, fail) ==
    LET t == Head(s.reTimers)
        s1 == PgStop([s EXCEPT !.reTimers = Tail(@)])
    IN PgPlayStart(s1, t.url, t.type, fail)

\* A 'playing' listener that leaves the counter alone.
PgOnPlayingKeep(s) == [s EXCEPT !.sincePlaying = 0]

\* The 'playing' listener, lines 245-248.
PgOnPlaying(s) ==
    LET s1 == [s EXCEPT !.sincePlaying = 0]
    IN IF s.listening THEN [s1 EXCEPT !.reconnectAttempts = 0] ELSE s1

\* A watchdog that gives up the session when playback is stuck.
PgWatchdogStops(s, readyState, url) ==
    IF readyState <= 1 THEN PgStop(s) ELSE s

\* The playTimeout callback of play(url), lines 147-163.
PgWatchdog(s, readyState, url) ==
    IF readyState <= 1
    THEN [s EXCEPT !.headPending = TRUE,
                   !.sent = Append(@, [req |-> "HEAD", url |-> url])]
    ELSE s

\* What a tick may read: Date.now() in ms, and videoElement.currentTime in
\* tenths of a millisecond (1.4996 s is 14996).
WallClocks == {100000, 101000}
CurrentTimes == {0, 14996, 25000}

\* new Date(n / d): the time value is truncated towards zero to whole ms.
TimeClip(n, d) == IF n >= 0 THEN n \div d ELSE -((-n) \div d)

\* Math.round(n / d): the nearest integer, halves rounded up.
MathRound(n, d) == (2 * n + d) \div (2 * d)

\* Lines 306-308 of the interval callback.
EstimatedLatency(timestamp, currentTime) ==
    LET videoTimestamp == TimeClip(10 * timestamp - currentTime, 10)
    IN MathRound(timestamp - videoTimestamp, 1000)

\* The interval callback, lines 298-333: onStats with the estimatedLatency
\* of the sample.
PgStatsTickBody(s, timestamp, currentTime) ==
    IF s.player = 0 THEN s
    ELSE Invoke(s, "onStats", <<EstimatedLatency(timestamp, currentTime)>>)

PgState(s) == Begin(s)

\* =====================================================================
\*  The state machine
\* =====================================================================
\* ---- the comparison page, lines 345-716
\* Its two buttons, the pending 1000 ms timers of 'Start Comparison', and
\* the number of clicks that started the sessions.
\* The page's log, latency and error displays are written and never read.
PageInit == [startDisabled |-> FALSE, stopDisabled |-> TRUE, delayTimers |-> 0,
             steps |-> 0]

\* A run of the page takes at most MaxPageSteps steps.
PageStepAllowed == mode = "page" => page.steps < MaxPageSteps

PageStep == IF mode = "page" THEN [page EXCEPT !.steps = @ + 1] ELSE page

Init ==
    /\ mode \in {"rt", "pg"}
    /\ rt = RtInit
    /\ pg \in {[PgInit EXCEPT !.config = c] :
                 c \in IF mode = "pg" THEN ConfigLayouts ELSE {"options"}}
    /\ page = PageInit
    /\ last = Last("init", NoArg)

\* ---- real-time session: the caller
RtPlay ==
    /\ mode = "rt"
    /\ \E url \in UrlArgs :
          /\ url # "" => Pending(rt) < MaxLiveRT /\ RtFree(RtStop(rt)) # {}
          /\ rt' = RtPlayStart(Begin(rt), url)
          /\ last' = Last("play", [url |-> url,
                                   changed |-> Changed(RtState(rt'), RtState(rt))])
    /\ UNCHANGED <<mode, pg, page>>

RtStopCall ==
    /\ mode = "rt"
    /\ rt' = RtStop(Begin(rt))
    /\ last' = Last("stop", [had |-> rt.peerConnection # 0,
                             again |-> last.op = "stop",
                             changed |-> Changed(RtState(rt'), RtState(rt))])
    /\ UNCHANGED <<mode, pg, page>>

\* ---- real-time session: the host settles the promise a play awaits
RtCreateOfferSettled ==
    /\ mode \in {"rt", "page"}
    /\ PageStepAllowed
    /\ \E pl \in DOMAIN rt.plays, ok \in BOOLEAN :
          /\ pl.pc = "createOffer"
          /\ rt' = RtAfterOffer(Begin(rt), pl, ok)
          /\ last' = Last("createOffer", [ok |-> ok])
    /\ page' = PageStep
    /\ UNCHANGED <<mode, pg>>

RtSetLocalSettled ==
    /\ mode \in {"rt", "page"}
    /\ PageStepAllowed
    /\ \E pl \in DOMAIN rt.plays, ok \in BOOLEAN :
          /\ pl.pc = "setLocal"
          /\ rt' = RtAfterLocal(Begin(rt), pl, ok)
          /\ last' = Last("setLocal", [ok |-> ok])
    /\ page' = PageStep
    /\ UNCHANGED <<mode, pg>>

RtFetchSettled ==
    /\ mode \in {"rt", "page"}
    /\ PageStepAllowed
    /\ \E pl \in DOMAIN rt.plays, out \in {"reject", "notok", "ok"} :
          /\ pl.pc = "fetch"
          /\ rt' = RtAfterFetch(Begin(rt), pl, out)
          /\ last' = Last("fetch", [out |-> out])
    /\ page' = PageStep
    /\ UNCHANGED <<mode, pg>>

RtJsonParsed ==
    /\ mode \in {"rt", "page"}
    /\ PageStepAllowed
    /\ \E pl \in DOMAIN rt.plays, r \in Responses :
          /\ pl.pc = "json"
          /\ rt' = RtAfterJson(Begin(rt), pl, TRUE, r)
          /\ last' = Last("json", r)
    /\ page' = PageStep
    /\ UNCHANGED <<mode, pg>>

RtJsonMalformed ==
    /\ mode \in {"rt", "page"}
    /\ PageStepAllowed
    /\ \E pl \in DOMAIN rt.plays :
          /\ pl.pc = "json"
          /\ rt' = RtAfterJson(Begin(rt), pl, FALSE, CHOOSE r \in Responses : TRUE)
          /\ last' = Last("jsonMalformed", NoArg)
    /\ page' = PageStep
    /\ UNCHANGED <<mode, pg>>

RtSetRemoteSettled ==
    /\ mode \in {"rt", "page"}
    /\ PageStepAllowed
    /\ \E pl \in DOMAIN rt.plays, ok \in BOOLEAN :
          /\ pl.pc = "setRemote"
          /\ rt' = RtAfterRemote(Begin(rt), pl, ok)
          /\ last' = Last("setRemote", [ok |-> ok])
    /\ page' = PageStep
    /\ UNCHANGED <<mode, pg>>

\* ---- real-time session: host events and timers
\* ICE gathering of an open connection completes once it has a local description.
RtGatheringComplete ==
    /\ mode \in {"rt", "page"}
    /\ PageStepAllowed
    /\ \E h \in RtOpen(rt) :
          /\ rt.conn[h].gather = "gathering"
          /\ rt' = RtDispatchGathering(
                       [Begin(rt) EXCEPT !.conn[h].gather = "complete"],
                       RtListening(rt, h))
          /\ last' = Last("gatheringComplete",
                          [listeners |-> BagCardinality(RtListening(rt, h))])
    /\ page' = PageStep
    /\ UNCHANGED <<mode, pg>>

\* The 5000 ms timer of a waiting play fires.
RtIceTimeout ==
    /\ mode \in {"rt", "page"}
    /\ PageStepAllowed
    /\ \E pl \in DOMAIN rt.plays :
          /\ pl.timer
          /\ rt' = RtIceTimeoutBody(
                       Replace(Begin(rt), pl, [pl EXCEPT !.timer = FALSE]),
                       [pl EXCEPT !.timer = FALSE])
          /\ last' = Last("iceTimeout", [waiting |-> RtWaiting(rt)])
    /\ page' = PageStep
    /\ UNCHANGED <<mode, pg>>

\* The 5000 ms timer of a play that waits no more fires.
RtLateIceTimeout ==
    /\ mode \in {"rt", "page"}
    /\ PageStepAllowed
    /\ rt.lateIceTimer
    /\ \E more \in BOOLEAN :
          /\ rt' = RtLateIceTimeoutBody([Begin(rt) EXCEPT !.lateIceTimer = more])
          /\ last' = Last("lateIceTimeout", NoArg)
    /\ page' = PageStep
    /\ UNCHANGED <<mode, pg>>

\* The ICE connection state of an open connection with a remote description
\* changes, and the connection fires iceconnectionstatechange.
RtIceStateChange ==
    /\ mode \in {"rt", "page"}
    /\ PageStepAllowed
    /\ \E h \in RtOpen(rt), st \in IceStates :
          /\ rt.conn[h].remote
          /\ rt.conn[h].ice # st
          /\ rt' = RtOnIceStateChange([Begin(rt) EXCEPT !.conn[h].ice = st])
          /\ last' = Last("iceState", [st |-> st])
    /\ page' = PageStep
    /\ UNCHANGED <<mode, pg>>

\* A closed connection delivers a queued iceconnectionstatechange event.
RtLateIceStateChange ==
    /\ mode \in {"rt", "page"}
    /\ PageStepAllowed
    /\ rt.lateIceEvent
    /\ \E more \in BOOLEAN :
          /\ rt' = RtOnIceStateChange([Begin(rt) EXCEPT !.lateIceEvent = more])
          /\ last' = Last("lateIceState",
                          [handle |-> rt.peerConnection # 0,
                           changed |-> Changed(RtState(rt'), RtState(rt))
                                          \ {"lateIceEvent"}])
    /\ page' = PageStep
    /\ UNCHANGED <<mode, pg>>

RtTrack ==
    /\ mode \in {"rt", "page"}
    /\ PageStepAllowed
    /\ \E h \in RtOpen(rt) :
          /\ rt.conn[h].remote
          /\ rt' = RtOnTrack(Begin(rt), h)
          /\ last' = Last("track", NoArg)
    /\ page' = PageStep
    /\ UNCHANGED <<mode, pg>>

RtStatsTick ==
    /\ mode \in {"rt", "page"}
    /\ PageStepAllowed
    /\ rt.liveStats > 0
    /\ rt' = RtStatsTickBody(Begin(rt))
    /\ last' = Last("statsTick", [handle |-> rt.peerConnection # 0])
    /\ page' = PageStep
    /\ UNCHANGED <<mode, pg>>

RtStatsSettled ==
    /\ mode \in {"rt", "page"}
    /\ PageStepAllowed
    /\ rt.statsPending
    /\ \E n \in ReportCounts, more \in BOOLEAN :
          /\ rt' = RtStatsReport(Begin(rt), n, more)
          /\ last' = Last("statsReport", [reports |-> n])
    /\ page' = PageStep
    /\ UNCHANGED <<mode, pg>>

\* ---- progressive session: the caller
PgPlay ==
    /\ mode = "pg"
    /\ \E a \in PlayArgs, fail \in {"none", "create", "load"} :
          /\ ~Falsy(a.url) => Pending(pg) < MaxLivePG /\ PgFree(PgStop(pg)) # {}
          /\ pg' = PgPlayStart(Begin(pg), a.url, a.type, fail)
          /\ last' = Last("play", [url |-> a.url, type |-> a.type, fail |-> fail,
                                   changed |-> Changed(PgState(pg'), PgState(pg))])
    /\ UNCHANGED <<mode, rt, page>>

PgStopCall ==
    /\ mode = "pg"
    /\ pg' = PgStop(Begin(pg))
    /\ last' = Last("stop", [had |-> pg.player # 0,
                             again |-> last.op = "stop",
                             changed |-> Changed(PgState(pg'), PgState(pg))])
    /\ UNCHANGED <<mode, rt, page>>

\* ---- progressive session: the host
PgVideoPlaySettled ==
    /\ mode \in {"pg", "page"}
    /\ PageStepAllowed
    /\ \E pl \in DOMAIN pg.plays, ok \in BOOLEAN :
          /\ pg' = PgAfterPlay(Begin(pg), pl, ok)
          /\ last' = Last("videoPlay", [ok |-> ok])
    /\ page' = PageStep
    /\ UNCHANGED <<mode, rt>>

\* The current player emits ERROR.
PgPlayerError ==
    /\ mode \in {"pg", "page"}
    /\ PageStepAllowed
    /\ pg.player # 0
    /\ \E e \in ErrorTypes :
          /\ (e = NETWORK_ERROR /\ pg.reconnectAttempts < maxReconnectAttempts)
                => Len(pg.reTimers) < MaxReTimers
          /\ pg' = PgOnError(Begin(pg), e)
          /\ last' = Last("error", [type |-> e, was |-> pg.reconnectAttempts,
                                    scheduled |-> Len(pg'.reTimers) - Len(pg.reTimers)])
    /\ page' = PageStep
    /\ UNCHANGED <<mode, rt>>

PgReconnectTimer ==
    /\ mode \in {"pg", "page"}
    /\ PageStepAllowed
    /\ pg.reTimers # <<>>
    /\ ~Falsy(Head(pg.reTimers).url)
          => Pending(pg) < MaxLivePG /\ PgFree(PgStop(pg)) # {}
    /\ \E fail \in IF Falsy(Head(pg.reTimers).url) THEN {"none"}
                   ELSE {"none", "create", "load"} :
          /\ pg' = PgReconnect(Begin(pg), fail)
          /\ last' = Last("reconnect", [url |-> Head(pg.reTimers).url,
                                        type |-> Head(pg.reTimers).type,
                                        fail |-> fail])
    /\ page' = PageStep
    /\ UNCHANGED <<mode, rt>>

\* The media element fires 'playing' while a player's source is attached.
PgPlaying ==
    /\ mode \in {"pg", "page"}
    /\ PageStepAllowed
    /\ pg.attached # 0
    /\ pg' = PgOnPlaying(Begin(pg))
    /\ last' = Last("playing", [was |-> pg.reconnectAttempts])
    /\ page' = PageStep
    /\ UNCHANGED <<mode, rt>>

\* The playTimeout of a pending play fires.
PgWatchdogTimer ==
    /\ mode \in {"pg", "page"}
    /\ PageStepAllowed
    /\ \E pl \in DOMAIN pg.plays, rs \in ReadyStates :
          /\ pl.timer
          /\ pg' = PgWatchdog(Replace(Begin(pg), pl, [pl EXCEPT !.timer = FALSE]),
                              rs, pl.url)
          /\ last' = Last("watchdog", [url |-> pl.url])
    /\ page' = PageStep
    /\ UNCHANGED <<mode, rt>>

\* The playTimeout of a settled play fires.
PgLateWatchdogTimer ==
    /\ mode \in {"pg", "page"}
    /\ PageStepAllowed
    /\ \E url \in pg.lateWatchdog, more \in BOOLEAN, rs \in ReadyStates :
          /\ pg' = PgWatchdog([Begin(pg) EXCEPT
                                  !.lateWatchdog = IF more THEN @ ELSE @ \ {url}],
                              rs, url)
          /\ last' = Last("lateWatchdog", [url |-> url])
    /\ page' = PageStep
    /\ UNCHANGED <<mode, rt>>

\* A HEAD request settles; lines 152-161 only log.  headPending: at least
\* one HEAD request is outstanding.
PgHeadSettled ==
    /\ mode \in {"pg", "page"}
    /\ PageStepAllowed
    /\ pg.headPending
    /\ \E more \in BOOLEAN :
          /\ pg' = [Begin(pg) EXCEPT !.headPending = more]
          /\ last' = Last("head", NoArg)
    /\ page' = PageStep
    /\ UNCHANGED <<mode, rt>>

PgStatsTick ==
    /\ mode \in {"pg", "page"}
    /\ PageStepAllowed
    /\ pg.liveStats > 0
    /\ \E timestamp \in WallClocks, currentTime \in CurrentTimes :
          /\ pg' = PgStatsTickBody(Begin(pg), timestamp, currentTime)
          /\ last' = Last("statsTick",
                          IF pg.player # 0
                          THEN [handle |-> TRUE, timestamp |-> timestamp,
                                currentTime |-> currentTime]
                          ELSE [handle |-> FALSE])
    /\ page' = PageStep
    /\ UNCHANGED <<mode, rt>>

\* ---- the comparison page: its buttons and its timer
\* 'Start Comparison' is clicked, lines 608-651; filled: both inputs hold text.
StartClick ==
    /\ mode = "page"
    /\ PageStepAllowed
    /\ ~page.startDisabled
    /\ \E filled \in BOOLEAN :
          /\ last' = Last("start", [filled |-> filled])
          /\ IF ~filled
             THEN /\ rt' = Begin(rt) /\ pg' = Begin(pg)
                  /\ page' = PageStep
             ELSE /\ Pending(rt) < MaxLiveRT /\ RtFree(RtStop(rt)) # {}
                  /\ rt' = RtPlayStart(Begin(rt), "u1")
                  /\ pg' = Begin(pg)
                  /\ page' = [PageStep EXCEPT !.startDisabled = TRUE,
                                              !.stopDisabled = FALSE,
                                              !.delayTimers = @ + 1]
    /\ UNCHANGED mode

\* 'Stop All' is clicked, lines 653-661.
StopClick ==
    /\ mode = "page"
    /\ PageStepAllowed
    /\ ~page.stopDisabled
    /\ rt' = RtStop(Begin(rt))
    /\ pg' = PgStop(Begin(pg))
    /\ page' = [PageStep EXCEPT !.startDisabled = FALSE, !.stopDisabled = TRUE]
    /\ last' = Last("stopAll", NoArg)
    /\ UNCHANGED mode

\* The 1000 ms timer of a 'Start Comparison' click fires, lines 636-648.
DelayTimer ==
    /\ mode = "page"
    /\ PageStepAllowed
    /\ page.delayTimers > 0
    /\ Pending(pg) < MaxLivePG
    /\ PgFree(PgStop(pg)) # {}
    /\ \E fail \in {"none", "create", "load"} :
          /\ pg' = PgPlayStart(Begin(pg), "u1", Undefined, fail)
          /\ last' = Last("delay", [fail |-> fail])
    /\ rt' = Begin(rt)
    /\ page' = [PageStep EXCEPT !.delayTimers = @ - 1]
    /\ UNCHANGED mode

NextRT ==
    \/ RtPlay \/ RtStopCall
    \/ RtCreateOfferSettled \/ RtSetLocalSettled \/ RtFetchSettled
    \/ RtJsonParsed \/ RtJsonMalformed \/ RtSetRemoteSettled
    \/ RtGatheringComplete \/ RtIceTimeout \/ RtLateIceTimeout
    \/ RtIceStateChange \/ RtLateIceStateChange \/ RtTrack
    \/ RtStatsTick \/ RtStatsSettled

NextPG ==
    \/ PgPlay \/ PgStopCall \/ PgVideoPlaySettled \/ PgPlayerError
    \/ PgReconnectTimer \/ PgPlaying \/ PgWatchdogTimer \/ PgLateWatchdogTimer
    \/ PgHeadSettled
    \/ PgStatsTick

Next == NextRT \/ NextPG

\* Either session.
Spec == Init /\ [][Next]_vars

\* The real-time session alone, and the progressive session alone.
InitRT == Init /\ mode = "rt"
InitPG == Init /\ mode = "pg"

SpecRT == InitRT /\ [][NextRT]_vars
SpecPG == InitPG /\ [][NextPG]_vars

\* The comparison page with both sessions: the page is their only caller,
\* and every step of the host is a step of the page.
NextPage ==
    \/ StartClick \/ StopClick \/ DelayTimer
    \/ RtCreateOfferSettled \/ RtSetLocalSettled \/ RtFetchSettled
    \/ RtJsonParsed \/ RtJsonMalformed \/ RtSetRemoteSettled
    \/ RtGatheringComplete \/ RtIceTimeout \/ RtLateIceTimeout
    \/ RtIceStateChange \/ RtLateIceStateChange \/ RtTrack
    \/ RtStatsTick \/ RtStatsSettled
    \/ PgVideoPlaySettled \/ PgPlayerError \/ PgReconnectTimer
    \/ PgPlaying \/ PgWatchdogTimer \/ PgLateWatchdogTimer
    \/ PgHeadSettled \/ PgStatsTick

InitPage ==
    /\ mode = "page"
    /\ rt = RtInit
    /\ pg \in {[PgInit EXCEPT !.config = c] : c \in ConfigLayouts}
    /\ page = PageInit
    /\ last = Last("init", NoArg)

SpecPage == InitPage /\ [][NextPage]_vars

\* =====================================================================
\*  Properties
\* =====================================================================
OnlyCalls(s, names) == CallNames(s.calls) = names

Applied(s) == {i \in DOMAIN s.sent : s.sent[i].req = "setRemoteDescription"}

Rejected(e) == <<[how |-> "rejected", err |-> e]>>

\* C1: in both sessions, after every step (every call of play or stop, and
\* every completion of an earlier play), at most one handle that has been
\* created and not yet closed or destroyed exists.
C1_AtMostOneHandle ==
    /\ Cardinality(RtOpen(rt)) <= 1
    /\ Cardinality(PgOpen(pg)) <= 1
    /\ RtOpen(rt) \subseteq {rt.peerConnection}
    /\ PgOpen(pg) \subseteq {pg.player}

\* play was called while an earlier play was still suspended, and made a new
\* connection.
C1_Witness ==
    /\ mode = "rt" /\ last.op = "play" /\ rt.peerConnection # 0
    /\ Pending(rt) = 2
    /\ RtOpen(rt) = {rt.peerConnection}

\* C2: in the progressive session at most 3 reconnections are scheduled
\* without a 'playing' event between them; a network-class error schedules
\* one reconnection with the url and type of the player that reported it
\* unless 3 are already counted, and then it invokes onError only and
\* schedules nothing; a reconnection is stop() followed by play() with that
\* url and type.
C2_ThreeReconnections ==
    mode = "pg" =>
      /\ pg.sincePlaying <= maxReconnectAttempts
      /\ (last.op = "error" /\ last.arg.type = NETWORK_ERROR) =>
            /\ OnlyCalls(pg, <<"onError">>)
            /\ IF pg.sincePlaying = maxReconnectAttempts /\ last.arg.scheduled = 0
               THEN pg.player # 0
               ELSE /\ last.arg.scheduled = 1
                    /\ pg.reTimers[Len(pg.reTimers)] =
                         [url |-> pg.players[pg.player].url,
                          type |-> pg.players[pg.player].type]
      /\ (last.op = "reconnect" /\ last.arg.fail = "none") =>
            /\ OnlyCalls(pg, <<"onDisconnected", "onDisconnected">>)
            /\ pg.player # 0
            /\ pg.players[pg.player] =
                 [st |-> "open", url |-> last.arg.url, type |-> last.arg.type]

\* C3: in the progressive session a 'playing' event sets the
\* reconnect-attempt counter to 0 whatever it was and invokes nothing; a
\* network-class error is then counted again (it is refused only when the
\* counter is 3), and at most 3 reconnections are scheduled before the next
\* 'playing' event.
C3_PlayingResetsCounter ==
    mode = "pg" =>
      /\ pg.sincePlaying <= pg.reconnectAttempts
      /\ last.op = "playing" => pg.reconnectAttempts = 0 /\ pg.calls = <<>>
      /\ (last.op = "error" /\ last.arg.type = NETWORK_ERROR) =>
            pg.reconnectAttempts =
                IF last.arg.was < maxReconnectAttempts THEN last.arg.was + 1
                ELSE maxReconnectAttempts

\* A 'playing' event arrived when the counter was at its maximum.
C3_Witness ==
    /\ mode = "pg" /\ last.op = "playing"
    /\ last.arg.was = maxReconnectAttempts
    /\ pg.reconnectAttempts = 0

\* C4: in the real-time session, when the 5000 ms timer of a play that is
\* waiting for ICE gathering fires, the play waits no more (it has sent the
\* offer or has been rejected): one play fewer waits than before.
C4_IceWaitEnds ==
    (mode = "rt" /\ last.op = "iceTimeout") => RtWaiting(rt) < last.arg.waiting

\* C5: in the real-time session a response whose code is not 0 rejects the
\* play with the ZLMediaKit error that carries the response's msg, applies
\* no remote description and leaves the session without a connection.
C5_NonZeroCodeRejects ==
    (mode = "rt" /\ last.op = "json" /\ last.arg.code # 0) =>
        /\ Len(rt.settled) = 1
        /\ rt.settled[1].how = "rejected"
        /\ rt.settled[1].err[1] = "ZLMediaKit error: "
        /\ last.arg.msg # Undefined => rt.settled[1].err[2] = last.arg.msg
        /\ Applied(rt) = {}
        /\ \A h \in HandlesRT : ~rt.conn[h].remote
        /\ rt.peerConnection = 0

\* A response with code 1, a msg and an sdp was received.
C5_Witness ==
    /\ mode = "rt" /\ last.op = "json" /\ last.arg.code = 1
    /\ last.arg.msg = "stream not found" /\ last.arg.sdp = "sdpA"
    /\ rt.settled # <<>>

\* C6: in the real-time session a response with code 0 in which sdp, answer
\* and data.sdp are all absent rejects the play with the error 'No SDP
\* answer found in response' and applies no remote description.
C6_MissingAnswerRejects ==
    (mode = "rt" /\ last.op = "json" /\ last.arg.code = 0
       /\ last.arg.sdp = Undefined /\ last.arg.answer = Undefined
       /\ DataSdp(last.arg) = Undefined) =>
        /\ rt.settled = Rejected(<<"No SDP answer found in response">>)
        /\ Applied(rt) = {}
        /\ \A h \in HandlesRT : ~rt.conn[h].remote

\* A code-0 response with a data object that has no sdp, and nothing else.
C6_Witness ==
    /\ mode = "rt" /\ last.op = "json" /\ last.arg.code = 0
    /\ last.arg.sdp = Undefined /\ last.arg.answer = Undefined
    /\ last.arg.data.present /\ last.arg.data.sdp = Undefined
    /\ rt.settled # <<>>

\* The error of the handshake step that failed in the last step, <<>> if none did.
FailedWith ==
    CASE last.op = "createOffer" /\ ~last.arg.ok -> HostError("createOffer")
      [] last.op = "setLocal" /\ ~last.arg.ok -> HostError("setLocalDescription")
      [] last.op = "fetch" /\ last.arg.out = "reject" -> HostError("fetch")
      [] last.op = "fetch" /\ last.arg.out = "notok" -> <<"Server returned", "404">>
      [] last.op = "jsonMalformed" -> HostError("json")
      [] last.op = "json" /\ last.arg.code # 0 ->
            <<"ZLMediaKit error: ", OrElse(last.arg.msg, "Unknown error")>>
      [] last.op = "json" /\ last.arg.code = 0 /\ Falsy(AnswerSdp(last.arg)) ->
            <<"No SDP answer found in response">>
      [] last.op = "setRemote" /\ ~last.arg.ok -> HostError("setRemoteDescription")
      [] OTHER -> <<>>

\* C7: in the real-time session, when a handshake step fails, play invokes
\* onError once with that error and nothing else, stop() leaves neither a
\* connection nor a stats timer, play rejects with the same error, and the
\* step starts no new attempt (no connection is made, no request is sent).
C7_FailureTearsDown ==
    (mode = "rt" /\ FailedWith # <<>>) =>
        /\ rt.calls = <<Call("onError", FailedWith)>>
        /\ rt.settled = Rejected(FailedWith)
        /\ rt.peerConnection = 0 /\ RtOpen(rt) = {}
        /\ ~rt.statsInterval /\ rt.liveStats = 0
        /\ rt.sent = <<>>

\* setRemoteDescription was rejected while another play was suspended.
C7_Witness ==
    /\ mode = "rt" /\ last.op = "setRemote" /\ ~last.arg.ok
    /\ rt.calls = <<Call("onError", HostError("setRemoteDescription"))>>
    /\ Pending(rt) > 0

\* C8 as the specification states it: in both sessions stop() with no handle
\* throws nothing, changes no session state and invokes no user callback.
C8_StopWithoutHandleIsNoOp ==
    (last.op = "stop" /\ ~last.arg.had) =>
        /\ last.arg.changed = {}
        /\ (IF mode = "rt" THEN rt ELSE pg).calls = <<>>
        /\ (IF mode = "rt" THEN rt ELSE pg).thrown = <<>>

\* C8, amended: stop() with no handle throws nothing in either session.  In
\* the real-time session it changes no state and invokes no callback.  In
\* the progressive session it invokes onDisconnected once, and changes
\* nothing but a stats timer that was running without a player, which it
\* clears; a stop() right after a stop() changes nothing in either session.
C8_StopWithoutHandle ==
    (last.op = "stop" /\ ~last.arg.had) =>
        IF mode = "rt"
        THEN last.arg.changed = {} /\ rt.calls = <<>> /\ rt.thrown = <<>>
        ELSE /\ pg.calls = <<Call("onDisconnected", NoErr)>>
             /\ pg.thrown = <<>>
             /\ last.arg.changed \subseteq {"statsInterval", "liveStats"}
             /\ last.arg.again => last.arg.changed = {}

\* stop() right after stop() in the progressive session.
C8_Witness ==
    /\ mode = "pg" /\ last.op = "stop" /\ ~last.arg.had /\ last.arg.again
    /\ pg.calls = <<Call("onDisconnected", NoErr)>>

\* The user callbacks named cb that the last step invoked.
Invoked(s, cb) == Cardinality({i \in DOMAIN s.calls : s.calls[i].cb = cb})

\* C9 as the specification states it: in both sessions every stats sample
\* taken while a handle exists invokes onStats once, and nothing else
\* invokes onStats.
C9_OnStatsOncePerTick ==
    /\ mode = "pg" =>
          Invoked(pg, "onStats") =
             IF last.op = "statsTick" /\ last.arg.handle THEN 1 ELSE 0
    /\ mode = "rt" =>
          Invoked(rt, "onStats") = IF last.op = "statsReport" THEN 1 ELSE 0

\* C9, amended: in the progressive session a tick invokes onStats once when
\* a player exists and not at all otherwise; in the real-time session a tick
\* invokes nothing, and the getStats() result it requested invokes onStats
\* once for each inbound-rtp video report, so 0, 1 or more times.  Nothing
\* else invokes onStats, and when stop() returns no stats timer is left, so
\* that until the next play only results already requested can arrive.
C9_OnStats ==
    /\ mode = "pg" =>
          /\ Invoked(pg, "onStats") =
                IF last.op = "statsTick" /\ last.arg.handle THEN 1 ELSE 0
          /\ Invoked(pg, "onStats") > 0 => pg.player # 0
          /\ last.op = "stop" => ~pg.statsInterval /\ pg.liveStats = 0
    /\ mode = "rt" =>
          /\ Invoked(rt, "onStats") =
                IF last.op = "statsReport" THEN last.arg.reports ELSE 0
          /\ last.op = "stop" => ~rt.statsInterval /\ rt.liveStats = 0
          /\ rt.peerConnection = 0 => ~rt.statsInterval

\* A getStats() result with two inbound-rtp video reports arrived after stop().
C9_Witness ==
    /\ mode = "rt" /\ last.op = "statsReport" /\ last.arg.reports = 2
    /\ Invoked(rt, "onStats") = 2
    /\ rt.peerConnection = 0

\* C10: in both sessions, when stop() returns, and when play() has made its
\* new handle, no timer set before is pending: no stats interval, no ICE
\* gathering timeout, no playback watchdog, no reconnect backoff.
C10_StopCancelsTimers ==
    /\ (mode = "rt" /\ last.op \in {"stop", "play"} /\ rt.settled = <<>>) =>
          /\ ~rt.statsInterval /\ rt.liveStats = 0
          /\ RtTimers(rt) = 0 /\ ~rt.lateIceTimer
    /\ (mode = "pg" /\ last.op \in {"stop", "play"} /\ pg.settled = <<>>) =>
          /\ ~pg.statsInterval /\ pg.liveStats = 0
          /\ PgTimers(pg) = (IF last.op = "play" THEN 1 ELSE 0) /\ pg.lateWatchdog = {}
          /\ pg.reTimers = <<>>

\* C11: an iceconnectionstatechange event delivered by a connection that
\* has been closed or replaced invokes no user callback, starts no timer and
\* changes no session state.
C11_SupersededHandlerInert ==
    (mode = "rt" /\ last.op = "lateIceState") =>
        rt.calls = <<>> /\ last.arg.changed = {}

\* The progressive session's last step was a failure: a rejected play, or an
\* ERROR event that schedules no reconnection.
PgFailed ==
    \/ last.op = "error" /\ last.arg.scheduled = 0
    \/ last.op = "videoPlay" /\ ~last.arg.ok
    \/ last.op = "play" /\ last.arg.url # "" /\ last.arg.fail # "none"
    \/ last.op = "reconnect" /\ (Falsy(last.arg.url) \/ last.arg.fail # "none")

\* C12: in both sessions, after a step in which something failed (a
\* handshake step, the creation, loading or playing of the player, a player
\* ERROR that is not retried), the session holds no handle and no timer of
\* it is pending.
C12_FailureLeavesNothing ==
    /\ (mode = "rt" /\ FailedWith # <<>>) =>
          /\ rt.peerConnection = 0 /\ RtOpen(rt) = {}
          /\ ~rt.statsInterval /\ rt.liveStats = 0
          /\ RtTimers(rt) = 0 /\ ~rt.lateIceTimer
    /\ (mode = "pg" /\ PgFailed) =>
          /\ pg.player = 0 /\ PgOpen(pg) = {}
          /\ ~pg.statsInterval /\ pg.liveStats = 0
          /\ PgTimers(pg) = 0 /\ pg.lateWatchdog = {} /\ pg.reTimers = <<>>

\* The calls of stop() the last step of the progressive session made.
PgStopsRun ==
    CASE last.op = "stop" -> 1
      [] last.op = "play" /\ last.arg.url = "" -> 0
      [] last.op = "play" -> IF last.arg.fail = "none" THEN 1 ELSE 2
      [] last.op = "videoPlay" -> IF last.arg.ok THEN 0 ELSE 1
      [] last.op = "reconnect" /\ Falsy(last.arg.url) -> 1
      [] last.op = "reconnect" -> IF last.arg.fail = "none" THEN 2 ELSE 3
      [] OTHER -> 0

\* C13: in the progressive session every call of stop() invokes
\* onDisconnected once, with or without a player: the caller's stop(), the
\* stop() at the start of play, the stop() of play's catch block and the
\* stop() of the reconnect timer; nothing else invokes it.
C13_StopAlwaysDisconnects ==
    mode = "pg" =>
      /\ Invoked(pg, "onDisconnected") = PgStopsRun
      /\ (last.op = "play" /\ last.arg.url # "" /\ last.arg.fail # "none") =>
            OnlyCalls(pg, <<"onDisconnected", "onError", "onDisconnected">>)
      /\ (last.op = "videoPlay" /\ ~last.arg.ok) =>
            OnlyCalls(pg, <<"onError", "onDisconnected">>)

\* play() whose player.load() threw, called when no player existed: the
\* stop() at its start and the stop() of its catch block.
C13_Witness ==
    /\ mode = "pg" /\ last.op = "play" /\ last.arg.fail = "load"
    /\ "player" \notin last.arg.changed
    /\ OnlyCalls(pg, <<"onDisconnected", "onError", "onDisconnected">>)


\* C14: in the real-time session onConnected is invoked only by the delivery
\* of an ICE connection-state-change event of a connection whose state has
\* become 'connected'; no other step (the signalling response, applying the
\* remote description, play, stop, timers) invokes it.
C14_OnConnectedOnlyOnConnectedEvent ==
    (mode = "rt" /\ Invoked(rt, "onConnected") > 0) =>
        last.op = "iceState" /\ last.arg.st = "connected"


\* C15: when the promise of ZLMWebRTCPlayer.play(url) resolves, the session
\* is connected: the ICE state of its connection is 'connected' (a connection
\* that has delivered no ICE event yet is in state 'new').
C15_ResolvesWhenConnected ==
    (mode = "rt" /\ \E i \in DOMAIN rt.settled : rt.settled[i].how = "resolved") =>
        /\ rt.peerConnection # 0
        /\ rt.conn[rt.peerConnection].ice = "connected"


\* C16: in the progressive session an ERROR event invokes onError once and
\* nothing else; if the error is not network-class no reconnection is
\* scheduled and the reconnect-attempt counter keeps its value; if it is
\* network-class and the counter is below 3, the counter grows by exactly 1
\* and exactly one reconnection timer is scheduled, carrying the url and type
\* of the player that reported the error.
C16_ErrorClasses ==
    (mode = "pg" /\ last.op = "error") =>
      /\ OnlyCalls(pg, <<"onError">>)
      /\ last.arg.type # NETWORK_ERROR =>
            /\ last.arg.scheduled = 0
            /\ pg.reconnectAttempts = last.arg.was
      /\ (last.arg.type = NETWORK_ERROR /\ last.arg.was < maxReconnectAttempts) =>
            /\ last.arg.scheduled = 1
            /\ pg.reconnectAttempts = last.arg.was + 1
            /\ pg.reTimers[Len(pg.reTimers)] =
                 [url |-> pg.players[pg.player].url,
                  type |-> pg.players[pg.player].type]

\* C17: in the progressive session the reconnect-attempt counter is always
\* between 0 and maxReconnectAttempts (3), whatever the interleaving of error
\* events, 'playing' events, reconnect timers, play and stop.
C17_CounterBounded ==
    /\ pg.reconnectAttempts >= 0
    /\ pg.reconnectAttempts <= maxReconnectAttempts

\* A network-class error arrives with the counter at 3 while a reconnection
\* is still scheduled: the counter stays at 3.
C17_Witness ==
    /\ mode = "pg" /\ last.op = "error" /\ last.arg.type = NETWORK_ERROR
    /\ last.arg.was = maxReconnectAttempts
    /\ pg.reconnectAttempts = maxReconnectAttempts
    /\ pg.reTimers # <<>>


\* The number of plays suspended at await p.
At(s, p) == BagCardinality(Restrict(s.plays, {x \in DOMAIN s.plays : x.pc = p}))

Posted(s) == {i \in DOMAIN s.sent : s.sent[i].req = "POST"}

HandshakeStep ==
    mode = "rt" =>
      /\ At(rt', "createOffer") > At(rt, "createOffer") => last'.op = "play"
      /\ At(rt', "setLocal") > At(rt, "setLocal") =>
            /\ last'.op = "createOffer" /\ last'.arg.ok
            /\ At(rt', "createOffer") < At(rt, "createOffer")
      /\ At(rt', "iceWait") > At(rt, "iceWait") =>
            /\ last'.op = "setLocal" /\ last'.arg.ok
            /\ At(rt', "setLocal") < At(rt, "setLocal")
      /\ At(rt', "fetch") > At(rt, "fetch") =>
            /\ Posted(rt') # {}
            /\ \/ At(rt', "iceWait") < At(rt, "iceWait")
               \/ At(rt', "setLocal") < At(rt, "setLocal")
      /\ Posted(rt') # {} =>
            /\ rt'.peerConnection # 0
            /\ rt'.conn[rt'.peerConnection].local
            /\ \/ last'.op \in {"gatheringComplete", "iceTimeout"}
               \/ /\ last'.op = "setLocal"
                  /\ rt'.conn[rt'.peerConnection].gather = "complete"
      /\ At(rt', "json") > At(rt, "json") =>
            /\ last'.op = "fetch" /\ last'.arg.out = "ok"
            /\ At(rt', "fetch") < At(rt, "fetch")
      /\ At(rt', "setRemote") > At(rt, "setRemote") =>
            /\ Applied(rt') # {}
            /\ At(rt', "json") < At(rt, "json")
      /\ Applied(rt') # {} =>
            /\ last'.op = "json"
            /\ last'.arg.code = 0 /\ ~Falsy(AnswerSdp(last'.arg))

\* C18: in the real-time session a play reaches each await of the handshake
\* only from the one before it: createOffer, setLocalDescription, the ICE
\* wait, the POST, the response body, setRemoteDescription.  The POST is sent
\* only by a step that ends an ICE wait (gathering complete, or the 5000 ms
\* timeout) and only when this.peerConnection has a local description; the
\* body is read only after a 2xx response; setRemoteDescription is called
\* only for a body whose code is 0 and whose answer is present.
C18_HandshakeOrder == [][HandshakeStep]_vars

\* A second play, overlapping a first one, has gone through the whole
\* handshake and applies the answer.
C18_Witness ==
    /\ mode = "rt" /\ last.op = "json"
    /\ Applied(rt) # {} /\ At(rt, "setRemote") = 1
    /\ Pending(rt) = 2


\* C19: in the real-time session onDisconnected is invoked only by the
\* delivery of an ICE connection-state-change event of a connection that has
\* become 'disconnected' or 'failed' or has been closed; stop() and play()
\* invoke no onDisconnected.
C19_OnDisconnectedOnlyOnIceEvent ==
    mode = "rt" =>
      /\ Invoked(rt, "onDisconnected") > 0 =>
            \/ last.op = "iceState" /\ last.arg.st \in {"disconnected", "failed"}
            \/ last.op = "lateIceState"
      /\ last.op \in {"stop", "play"} => Invoked(rt, "onDisconnected") = 0

\* The connection of a connected session reports 'failed': onDisconnected
\* is invoked once, and nothing else.
C19_Witness ==
    /\ mode = "rt" /\ last.op = "iceState" /\ last.arg.st = "failed"
    /\ rt.statsInterval
    /\ OnlyCalls(rt, <<"onDisconnected">>)


\* C20: each session has at most one stats-sampling interval timer in every
\* reachable state, and it has one exactly when statsInterval holds one:
\* play on an active session, repeated 'connected' events and overlapping
\* plays leave no second timer running.
C20_OneStatsTimer ==
    /\ rt.liveStats = IF rt.statsInterval THEN 1 ELSE 0
    /\ pg.liveStats = IF pg.statsInterval THEN 1 ELSE 0

\* The ICE handler runs for 'connected' again while the stats timer of the
\* session is running: onConnected is invoked and no timer is added.
C20_Witness ==
    /\ mode = "rt" /\ last.op = "lateIceState"
    /\ Invoked(rt, "onConnected") = 1
    /\ last.arg.changed = {}
    /\ rt.liveStats = 1


WatchdogStep ==
    (mode = "pg" /\ last'.op \in {"watchdog", "lateWatchdog", "head"}) =>
      /\ pg'.player = pg.player /\ pg'.players = pg.players
      /\ pg'.attached = pg.attached /\ pg'.listening = pg.listening
      /\ pg'.statsInterval = pg.statsInterval /\ pg'.liveStats = pg.liveStats
      /\ pg'.reconnectAttempts = pg.reconnectAttempts
      /\ pg'.reTimers = pg.reTimers
      /\ pg'.calls = <<>> /\ pg'.settled = <<>> /\ pg'.thrown = <<>>

\* C21: in the progressive session the firing of a playTimeout watchdog, the
\* HEAD request it may send and the settling of that request leave the
\* session as it was: the player handle, the stats timer, the reconnect
\* counter and the scheduled reconnections are unchanged, no user callback is
\* invoked, no play settles and nothing is thrown.
C21_WatchdogOnlyLogs == [][WatchdogStep]_vars

\* A watchdog fired on a session with a player and a counted reconnection,
\* found playback stuck and sent the HEAD request.
C21_Witness ==
    /\ mode = "pg" /\ last.op = "watchdog"
    /\ pg.sent = <<[req |-> "HEAD", url |-> "u1"]>>
    /\ pg.player # 0 /\ pg.reconnectAttempts > 0


\* C22: in both sessions play with an empty url is rejected with
\* 'Stream URL is required' and does nothing else: no field of the session
\* changes (the handle, the stats timer and the suspended plays stay as they
\* were, so stop() did not run), no user callback is invoked, nothing is
\* sent.
C22_EmptyUrlRejectedFirst ==
    (last.op = "play" /\ last.arg.url = "") =>
        LET s == IF mode = "rt" THEN rt ELSE pg
        IN /\ s.settled = Rejected(<<"Stream URL is required">>)
           /\ last.arg.changed = {}
           /\ s.calls = <<>> /\ s.sent = <<>> /\ s.thrown = <<>>

\* play('') on a real-time session that has a connection and a running
\* stats timer.
C22_Witness ==
    /\ mode = "rt" /\ last.op = "play" /\ last.arg.url = ""
    /\ rt.peerConnection # 0 /\ rt.statsInterval
    /\ rt.settled = Rejected(<<"Stream URL is required">>)


AfterStopStep ==
    (mode = "pg" /\ last.op = "stop" /\ pg'.player # 0) => last'.op = "play"

\* C23: in the progressive session, when the caller's stop() has returned,
\* the step that gives the session a player again is the caller's play: no
\* reconnect backoff timer creates a player after stop().
C23_NoPlayerAfterStop == [][AfterStopStep]_vars


\* The step resumes a play that an immediately preceding play() superseded.
\* The superseding play is suspended at its first await, so in the real-time
\* session a resumption past createOffer is the older play's; in the
\* progressive session the older play is the one whose playTimeout has fired.
SupersededResumes ==
    /\ last.op = "play" /\ last.arg.url # ""
    /\ IF mode = "rt"
       THEN /\ Pending(rt) = 2
            /\ last'.op \in {"setLocal", "iceTimeout", "fetch", "json",
                             "jsonMalformed", "setRemote"}
       ELSE /\ last.arg.fail = "none"
            /\ last'.op = "videoPlay"
            /\ \E a, b \in PlayArgs :
                  /\ pg.plays = SetToBag({PgAwait(a.url, FALSE), PgAwait(b.url, TRUE)})
                  /\ pg'.plays = SetToBag({PgAwait(b.url, TRUE)})

SupersededStep ==
    SupersededResumes =>
        IF mode = "rt"
        THEN /\ rt'.peerConnection = rt.peerConnection /\ rt'.conn = rt.conn
             /\ rt'.statsInterval = rt.statsInterval /\ rt'.liveStats = rt.liveStats
             /\ Invoked(rt', "onConnected") = 0 /\ Invoked(rt', "onError") = 0
        ELSE /\ pg'.player = pg.player /\ pg'.players = pg.players
             /\ pg'.statsInterval = pg.statsInterval /\ pg'.liveStats = pg.liveStats
             /\ Invoked(pg', "onConnected") = 0 /\ Invoked(pg', "onError") = 0

\* C24: in both sessions, when play #2 was called while play #1 was
\* suspended at an await, the resumption of play #1 leaves the handle that
\* play #2 created as it is (neither closed or destroyed nor otherwise
\* changed), starts or stops no stats timer and invokes neither onConnected
\* nor onError.
C24_SupersededPlayInert == [][SupersededStep]_vars


\* A play suspended in _waitForIceGathering() can still be resumed: its
\* 5000 ms timer is pending, or its checkState listener is registered on a
\* connection that is open.  The other awaits are host promises, which settle.
RtCanResume(s, pl) ==
    pl.pc = "iceWait" => pl.timer \/ pl.listener # 0

\* C25: in the real-time session every call of play can still settle: no
\* suspended play is left with nothing that could ever resume it, also when
\* stop() or another play() ran while it was waiting for ICE gathering.
C25_PlaySettles ==
    mode = "rt" => \A pl \in DOMAIN rt.plays : RtCanResume(rt, pl)


\* C26: in the progressive session at most one reconnect backoff timer is
\* pending in every reachable state.
C26_OneBackoffTimer == mode = "pg" => Len(pg.reTimers) <= 1


\* C27: in both sessions a running stats-sampling timer implies a handle:
\* statsInterval is set only while peerConnection / player is set.
C27_StatsTimerHasHandle ==
    /\ rt.statsInterval => rt.peerConnection # 0
    /\ pg.statsInterval => pg.player # 0


\* C28: in both sessions onConnected is not invoked while the session has no
\* handle: a step that invokes onConnected ends with peerConnection / player
\* set.
C28_OnConnectedHasHandle ==
    /\ Invoked(rt, "onConnected") > 0 => rt.peerConnection # 0
    /\ Invoked(pg, "onConnected") > 0 => pg.player # 0


\* The step delivers an ICE connection-state-change event of a connection
\* that has become 'disconnected' or 'failed', or that has been closed.
IceDownEvent ==
    \/ last'.op = "iceState" /\ last'.arg.st \in {"disconnected", "failed"}
    \/ last'.op = "lateIceState"

IceDownStep ==
    (mode = "rt" /\ IceDownEvent) =>
      /\ OnlyCalls(rt', <<"onDisconnected">>)
      /\ rt'.thrown = <<>>
      /\ rt'.peerConnection = rt.peerConnection /\ RtOpen(rt') = RtOpen(rt)
      /\ rt'.statsInterval = rt.statsInterval /\ rt'.liveStats = rt.liveStats

\* C29: in the real-time session the delivery of an ICE state change to
\* 'disconnected', 'failed' or 'closed' invokes onDisconnected once and
\* nothing else: no onError, no other callback, nothing thrown, and the
\* connection handle and the stats timer are as they were.
C29_IceDownOnlyDisconnects == [][IceDownStep]_vars


\* C30: in the real-time session, for a parsed response with code 0, the sdp
\* passed to setRemoteDescription is result.sdp if that is non-empty,
\* otherwise result.answer if that is non-empty, otherwise result.data.sdp;
\* if one of the three is non-empty the answer is applied (or, with no
\* connection left, the play is rejected with the TypeError of the null
\* peerConnection); a response without a data object raises nothing but, when
\* sdp and answer are empty too, 'No SDP answer found in response'.
C30_FirstNonEmptyAnswer ==
    (mode = "rt" /\ last.op = "json" /\ last.arg.code = 0) =>
        LET r == last.arg
            want == IF r.sdp \notin {Undefined, ""} THEN r.sdp
                    ELSE IF r.answer \notin {Undefined, ""} THEN r.answer
                    ELSE IF r.data.present THEN r.data.sdp
                    ELSE Undefined
        IN /\ rt.thrown = <<>>
           /\ \A i \in Applied(rt) : rt.sent[i].url = want
           /\ IF want \in {Undefined, ""}
              THEN /\ Applied(rt) = {}
                   /\ rt.settled = Rejected(<<"No SDP answer found in response">>)
              ELSE \/ Cardinality(Applied(rt)) = 1 /\ rt.settled = <<>>
                   \/ Applied(rt) = {} /\ rt.settled = Rejected(TypeError)

\* An empty-string sdp with an answer and a data.sdp: the answer is applied.
C30_Witness ==
    /\ mode = "rt" /\ last.op = "json" /\ last.arg.code = 0
    /\ last.arg.sdp = "" /\ last.arg.answer = "sdpB"
    /\ last.arg.data = [present |-> TRUE, sdp |-> "sdpC"]
    /\ rt.sent = <<[req |-> "setRemoteDescription", url |-> "sdpB"]>>


\* Two consecutive samples of the progressive session with the same media
\* position, taken at different wall-clock times.
SameFrameLater ==
    /\ mode = "pg"
    /\ last.op = "statsTick" /\ last.arg.handle
    /\ last'.op = "statsTick" /\ last'.arg.handle
    /\ last'.arg.currentTime = last.arg.currentTime
    /\ last'.arg.timestamp # last.arg.timestamp

LatencyStep ==
    SameFrameLater => pg'.calls[1].arg[1] # pg.calls[1].arg[1]

\* C31: in the progressive session the estimatedLatency of a sample is the
\* gap between the wall-clock time and the media timestamp: of two samples
\* of the same media position taken a second apart, the later one reports a
\* different latency.
C31_LatencyFollowsWallClock == [][LatencyStep]_vars


\* C32: on the comparison page, from a click on 'Stop All' (which disables
\* that button) until the next click on 'Start Comparison' that starts the
\* sessions (which enables it again), neither session holds a handle.
C32_StopAllLeavesNoHandle ==
    (mode = "page" /\ page.stopDisabled) =>
        rt.peerConnection = 0 /\ pg.player = 0

=============================================================================
